---- MODULE Spec2Model ----
(***************************************************************************)
(* pg-data-sync: the refresh-and-swap orchestrator of sync.py (start,      *)
(* _download_dataset, _restore_database, _should_restore_db, _clean_up)    *)
(* over a PostgreSQL catalog of databases and roles (db.py) and a download *)
(* directory (utils.py, dataset.py).                                       *)
(*                                                                         *)
(* Every call that talks to the server, the network or the disk may raise; *)
(* an action models one call of the code together with the statements that *)
(* follow it up to the next call that can raise.                           *)
(***************************************************************************)
EXTENDS Integers, Sequences, FiniteSets, TLC

\* ---------------------------------------------------------------- bounds
\* Number of times start() is called in one process.
MaxRuns == 2
\* Last value of the wall clock (in ticks).
MaxClock == 5
\* Ticks of the wall clock per calendar day.
TicksPerDay == 2
\* Largest upstream update date the metadata feed reports.
MaxDate == 2

\* ------------------------------------------------------- program constants
\* Python's None for `date | None` (dates are 1, 2, ...).
None == 0
\* start()'s return codes.
RC_OK == 0
RC_ERROR == -1
RC_NOTHING == -2
\* Wall clock and creation date of the databases that exist before the
\* first run.
InitClock == 4
InitCreated == 2
\* create_indexes on its own: calls in a row, indexes restored with the
\* data, and the creation call up to which the server may reject one.
MaxCalls == 2
MaxIndexes == 2
MaxFailAt == 3
\* rename_schemas on its own: length of a schema name, schemas in the
\* staging database.
MaxNameLen == 3
MaxSchemas == 2
\* close_active_connections on its own: backends connected to the database.
MaxPids == 3

\* ------------------------------------------------------------------ names
\* Database names are triples <<kind, base, n>> so that all names compare.
NoName == <<"none", "", 0>>
ProdName(db_name) == <<"prod", db_name, 0>>
RoleName(r) == <<"role", r, 0>>
IsTmp(n) == n[1] = "tmp"
IsBackup(n) == n[1] = "bak"
IsProd(n) == n[1] = "prod"

\* utils.get_db_tmp_name: 'tmp_' + a fresh uuid4 (k-th uuid drawn).
get_tmp_db_name(k) == <<"tmp", "", k>>

\* utils.get_db_backup_name: '{db_name}_bak_{YYYYMMDDHHMMSS}'.
get_backup_db_name(db_name, now) == <<"bak", db_name, now>>

\* The calendar date of a clock value (datetime.date()).
DateOf(now) == now \div TicksPerDay

\* ----------------------------------------------------------- configuration
\* FileMap(db_name, db_role); db_role "" is None.
FileMap(n, r) == [db_name |-> n, db_role |-> r]
DbNames == {"a", "b"}
\* config.dataset.files: two targets, the second with no role, the role of
\* the first, or a role of its own.
Configs == { <<FileMap("a", "r"), FileMap("b", rb)>> : rb \in {"", "r", "s"} }
\* The configurations the model starts from: <<files, format>>.
Setups == (Configs \X {"FGDB"})
            \cup {<< <<FileMap("a", "r"), FileMap("b", "s")>>, "PostGIS" >>}

VARIABLES
    files,            \* config.dataset.files
    format,           \* config.dataset.format
    clock,            \* wall clock
    catalog,          \* pg_database: name -> [oid, created, run, built]
    roles,            \* pg_roles: set of role names
    disk,             \* download directories that exist
    tmp_dbs_created,  \* sync.tmp_dbs_created (module-level list)
    roles_created,    \* sync.roles_created (module-level list)
    uuids,            \* number of uuid4() values drawn for tmp names
    run,              \* number of calls of start() so far
    pc,               \* position in start()
    result,           \* <<>> or <<return code of the last start()>>
    dataset_updated,  \* start: dataset_updated
    file_maps,        \* start: file_maps (the qualifying targets)
    i,                \* loop index (staleness filter, build loop)
    j,                \* loop index of _clean_up
    download_path,    \* start: download_path ("" or the run's directory)
    tmp_db_name,      \* _restore_database: tmp_db_name
    trace,            \* history: operations that took effect in this run
    failed_at,        \* history: the call that raised in this run ("" none)
    cleanup_failed,   \* history: the call that raised inside _clean_up
    catalog0,         \* history: catalog when the run started
    roles0,           \* history: roles when the run started
    ledger0,          \* history: the two ledger lists when the run started
    catalogB,         \* history: catalog when the current build started
    updated0,         \* history: dataset_updated of the run before, if it
                      \* returned 0 (None otherwise)
    s_in,             \* staleness harness: inputs of _should_restore_db
    s_out,            \* staleness harness: <<>> or <<returned value>>
    x_db,             \* index harness: the staging database's indexes
    x_configs,        \* index harness: config.indexing
    x_calls,          \* index harness: the outcome of each create_indexes
    n_schemas,        \* schema harness: pg_namespace of the staging database
    n_prefix,         \* schema harness: the prefix given to rename_schemas
    n_out,            \* schema harness: <<>> or <<outcome of rename_schemas>>
    k_pids,           \* connection harness: pids get_active_connections lists
    k_broken,         \* connection harness: pids whose termination fails
    k_out             \* connection harness: <<>> or <<outcome of the call>>

progvars == <<files, format, clock, catalog, roles, disk, tmp_dbs_created,
              roles_created, uuids, run, pc, result, dataset_updated,
              file_maps, i, j, download_path, tmp_db_name, trace, failed_at,
              cleanup_failed, catalog0, roles0, ledger0, catalogB, updated0>>
stalevars == <<s_in, s_out>>
idxvars == <<x_db, x_configs, x_calls>>
schvars == <<n_schemas, n_prefix, n_out>>
connvars == <<k_pids, k_broken, k_out>>
vars == <<progvars, stalevars, idxvars, schvars, connvars>>

\* ---------------------------------------------------------------- helpers
Range(s) == { s[k] : k \in 1..Len(s) }
Truthy(d) == d # None
Op(o, a, b, t) == [op |-> o, a |-> a, b |-> b, t |-> t]
DirOf(r) == <<"download", "", r>>

\* --------------------------------------------------------------- database
\* db.db_exists: SELECT 1 FROM pg_database WHERE datname = db_name.
db_exists(cat, name) == name \in DOMAIN cat

\* db.get_db_creation_date: modification date of the database's PG_VERSION
\* file, None when the query returns no row.
get_db_creation_date(cat, name) ==
    IF name \in DOMAIN cat THEN cat[name].created ELSE None

\* db.role_exists
role_exists(rs, r) == r \in rs

\* db.create_db: CREATE DATABASE name.
create_db(cat, name, rec) ==
    [m \in DOMAIN cat \cup {name} |-> IF m = name THEN rec ELSE cat[m]]

\* db.rename_db: ALTER DATABASE old RENAME TO new; the statement fails when
\* old does not exist or new exists.
can_rename_db(cat, old, new) == old \in DOMAIN cat /\ new \notin DOMAIN cat
rename_db(cat, old, new) ==
    [m \in (DOMAIN cat \ {old}) \cup {new} |->
        IF m = new THEN cat[old] ELSE cat[m]]

\* Faulty variants of delete_db: one that drops nothing, and one that drops
\* the database created under `name` whatever name it carries now.
delete_db_skip(cat, name) == cat
delete_db_by_oid(cat, name) ==
    [m \in { x \in DOMAIN cat : cat[x].oid # Len(files) + name[3] } |-> cat[m]]

\* db.delete_db: DROP DATABASE IF EXISTS name WITH (FORCE).
delete_db(cat, name) == [m \in DOMAIN cat \ {name} |-> cat[m]]

\* db.delete_role: DROP ROLE IF EXISTS r.
delete_role(rs, r) == rs \ {r}

\* Faulty variant of _should_restore_db: `>` for `>=`.
should_restore_db_strict(exists, db_created, updated) ==
    IF ~exists THEN TRUE
    ELSE IF Truthy(db_created) /\ Truthy(updated)
         THEN updated > db_created ELSE TRUE

\* Faulty variant of _should_restore_db: without the db_exists test, and
\* with false for a missing date.
should_restore_db_dated(exists, db_created, updated) ==
    IF Truthy(db_created) /\ Truthy(updated)
    THEN updated >= db_created ELSE FALSE

\* sync._should_restore_db, given what db_exists and get_db_creation_date
\* returned.
should_restore_db(exists, db_created, updated) ==
    IF ~exists THEN TRUE
    ELSE IF Truthy(db_created) /\ Truthy(updated)
         THEN updated >= db_created ELSE TRUE

\* ------------------------------------------------- db.create_indexes
\* The tables of the staging database, <<schema, table>>, with a column "id",
\* columns "a" and "b", and the geometry columns geometry_columns lists.
IdxTables == {<<"public", "t">>, <<"public", "u">>, <<"other", "t">>}
GeomColumnsOf(schema_name, table_name) ==
    IF table_name = "t" /\ <<schema_name, table_name>> \in IdxTables
    THEN <<"shape">> ELSE <<>>

\* A row of _get_indexes, with the name of the index (i.relname).
Index(schema_name, table_name, index_type, is_primary, indexed_columns, name) ==
    [schema_name |-> schema_name, table_name |-> table_name,
     index_type |-> index_type, is_primary |-> is_primary,
     indexed_columns |-> indexed_columns, name |-> name]

\* The names the three statements give to what they create.
pkey_name(table_name) == <<table_name, <<>>, "pkey">>
geom_index_name(table_name, column_name) ==
    <<table_name, <<column_name>>, "geom_idx">>
index_name(table_name, column_names) == <<table_name, column_names, "idx">>

\* collections.Counter of a list: element -> number of occurrences.
Counter(list) ==
    [c \in Range(list) |-> Cardinality({ k \in 1..Len(list) : list[k] = c })]

\* Faulty variant of _get_indexes: only the first schema is asked for.
get_indexes_first_schema(dbx, schema_names) ==
    { index \in dbx.indexes : index.schema_name = schema_names[1] }

\* db._get_indexes(db_name, schema_names)
get_indexes(dbx, schema_names) ==
    { index \in dbx.indexes : index.schema_name \in Range(schema_names) }

\* db._get_all_geom_columns: table -> geometry columns, for the tables of
\* the list that have one.
get_all_geom_columns(schema_name, table_names) ==
    [t \in { n \in Range(table_names) : GeomColumnsOf(schema_name, n) # <<>> }
        |-> GeomColumnsOf(schema_name, t)]

\* Faulty variant of _has_primary_key: any index of the table counts.
has_primary_key_any(indexes, schema_name, table_name) ==
    \E index \in indexes :
        /\ index.schema_name = schema_name
        /\ index.table_name = table_name

\* db._has_primary_key
has_primary_key(indexes, schema_name, table_name) ==
    \E index \in indexes :
        /\ index.schema_name = schema_name
        /\ index.table_name = table_name
        /\ index.is_primary = TRUE

\* db._has_geom_index: a gist index of the table whose first column is the
\* column.
has_geom_index(indexes, schema_name, table_name, column_name) ==
    \E index \in indexes :
        /\ index.schema_name = schema_name
        /\ index.table_name = table_name
        /\ index.index_type = "gist"
        /\ index.indexed_columns[1] = column_name

\* Faulty variant of _has_index: the column lists are compared as lists.
has_index_ordered(indexes, schema_name, table_name, column_names) ==
    \E index \in indexes :
        /\ index.schema_name = schema_name
        /\ index.table_name = table_name
        /\ index.indexed_columns = column_names

\* db._has_index
has_index(indexes, schema_name, table_name, column_names) ==
    \E index \in indexes :
        /\ index.schema_name = schema_name
        /\ index.table_name = table_name
        /\ Counter(index.indexed_columns) = Counter(column_names)

\* The outcome of a statement or call: the database afterwards and whether
\* it returned (ok) or raised.
Outcome(dbx, ok) == [db |-> dbx, ok |-> ok]

\* A relation of that name exists in the schema.
name_taken(dbx, schema_name, name) ==
    \E index \in dbx.indexes :
        index.schema_name = schema_name /\ index.name = name

\* The three ALTER TABLE statements of create_primary_key (sql1, sql2, sql3),
\* each on the database the one before left. stmt_fail is the statement the
\* server rejects for a reason outside the model (0: none, 4: the commit).
pk_col(schema_name, table_name, column_name) ==
    <<schema_name, table_name, column_name>>
pk_sql1(dbx, schema_name, table_name, column_name, stmt_fail) ==
    IF stmt_fail # 1 /\ <<schema_name, table_name>> \in IdxTables
    THEN Outcome([dbx EXCEPT !.not_null =
                     @ \cup {pk_col(schema_name, table_name, column_name)}],
                 TRUE)
    ELSE Outcome(dbx, FALSE)
pk_sql2(dbx, schema_name, table_name, column_name, stmt_fail) ==
    IF stmt_fail # 2
       /\ pk_col(schema_name, table_name, column_name) \notin dbx.identity
    THEN Outcome([dbx EXCEPT !.identity =
                     @ \cup {pk_col(schema_name, table_name, column_name)}],
                 TRUE)
    ELSE Outcome(dbx, FALSE)
pk_sql3(dbx, schema_name, table_name, column_name, stmt_fail) ==
    IF /\ stmt_fail # 3
       /\ ~has_primary_key(dbx.indexes, schema_name, table_name)
       /\ ~name_taken(dbx, schema_name, pkey_name(table_name))
    THEN Outcome([dbx EXCEPT !.indexes =
                     @ \cup {Index(schema_name, table_name, "btree", TRUE,
                                   <<column_name>>, pkey_name(table_name))}],
                 TRUE)
    ELSE Outcome(dbx, FALSE)

\* Faulty variant of create_primary_key: every statement is committed on its
\* own (autocommit left on).
create_primary_key_autocommit(dbx, schema_name, table_name, column_name, stmt_fail) ==
    LET r1 == pk_sql1(dbx, schema_name, table_name, column_name, stmt_fail)
        r2 == pk_sql2(r1.db, schema_name, table_name, column_name, stmt_fail)
        r3 == pk_sql3(r2.db, schema_name, table_name, column_name, stmt_fail)
    IN IF ~r1.ok THEN r1 ELSE IF ~r2.ok THEN r2 ELSE r3

\* db.create_primary_key: autocommit off, the three statements, then commit;
\* an exception leaves the connection block, which rolls back, and is
\* raised again.
create_primary_key(dbx, schema_name, table_name, column_name, stmt_fail) ==
    LET r1 == pk_sql1(dbx, schema_name, table_name, column_name, stmt_fail)
        r2 == pk_sql2(r1.db, schema_name, table_name, column_name, stmt_fail)
        r3 == pk_sql3(r2.db, schema_name, table_name, column_name, stmt_fail)
    IN IF r1.ok /\ r2.ok /\ r3.ok /\ stmt_fail # 4
       THEN Outcome(r3.db, TRUE)
       ELSE Outcome(dbx, FALSE)

\* db.create_geom_index: CREATE INDEX {table}_{column}_geom_idx ... USING GIST.
create_geom_index(dbx, schema_name, table_name, column_name, stmt_fail) ==
    IF /\ stmt_fail = 0
       /\ <<schema_name, table_name>> \in IdxTables
       /\ ~name_taken(dbx, schema_name,
                      geom_index_name(table_name, column_name))
    THEN Outcome([dbx EXCEPT !.indexes =
                     @ \cup {Index(schema_name, table_name, "gist", FALSE,
                                   <<column_name>>,
                                   geom_index_name(table_name, column_name))}],
                 TRUE)
    ELSE Outcome(dbx, FALSE)

\* db.create_index: CREATE INDEX {table}_{columns}_idx ON table (columns).
create_index(dbx, schema_name, table_name, column_names, stmt_fail) ==
    IF /\ stmt_fail = 0
       /\ <<schema_name, table_name>> \in IdxTables
       /\ column_names # <<>>
       /\ ~name_taken(dbx, schema_name, index_name(table_name, column_names))
    THEN Outcome([dbx EXCEPT !.indexes =
                     @ \cup {Index(schema_name, table_name, "btree", FALSE,
                                   column_names,
                                   index_name(table_name, column_names))}],
                 TRUE)
    ELSE Outcome(dbx, FALSE)

\* A creation call create_indexes issues.
Creation(kind, schema_name, table_name, column_names) ==
    [kind |-> kind, schema_name |-> schema_name, table_name |-> table_name,
     column_names |-> column_names]

\* The creation calls of one table (db.py:329-348), decided on the index
\* list `indexes` read at the top of the configuration.
table_creations(indexes, geom_columns, config, schema_name, table_name) ==
    LET pk == IF config.id_column # ""
                 /\ ~has_primary_key(indexes, schema_name, table_name)
              THEN <<Creation("pk", schema_name, table_name,
                              <<config.id_column>>)>>
              ELSE <<>>
        geom_column_names ==
            IF DOMAIN geom_columns # {} /\ table_name \in DOMAIN geom_columns
            THEN geom_columns[table_name] ELSE <<>>
        geom_wanted ==
            SelectSeq(geom_column_names,
                      LAMBDA c : ~has_geom_index(indexes, schema_name,
                                                 table_name, c))
        col_wanted ==
            SelectSeq(config.indexes,
                      LAMBDA cs : ~has_index(indexes, schema_name,
                                             table_name, cs))
    IN pk \o [k \in 1..Len(geom_wanted) |->
                 Creation("geom", schema_name, table_name, <<geom_wanted[k]>>)]
          \o [k \in 1..Len(col_wanted) |->
                 Creation("index", schema_name, table_name, col_wanted[k])]

\* The loops over config.schemas and config.tables (db.py:327-348): the
\* creation calls from table n of the <<schema, table>> pairs on.
RECURSIVE config_creations(_, _, _)
config_creations(indexes, config, n) ==
    LET nt == Len(config.tables)
        schema_name == config.schemas[((n - 1) \div nt) + 1]
        table_name == config.tables[((n - 1) % nt) + 1]
        geom_columns == IF config.geom_index
                        THEN get_all_geom_columns(schema_name, config.tables)
                        ELSE <<>>
    IN IF nt = 0 \/ n > Len(config.schemas) * nt
       THEN <<>>
       ELSE table_creations(indexes, geom_columns, config, schema_name,
                            table_name)
            \o config_creations(indexes, config, n + 1)

\* One creation call on the database.
run_creation(dbx, c, stmt_fail) ==
    IF c.kind = "pk"
    THEN create_primary_key(dbx, c.schema_name, c.table_name,
                            c.column_names[1], stmt_fail)
    ELSE IF c.kind = "geom"
    THEN create_geom_index(dbx, c.schema_name, c.table_name,
                           c.column_names[1], stmt_fail)
    ELSE create_index(dbx, c.schema_name, c.table_name, c.column_names,
                      stmt_fail)

\* The state of a call of create_indexes: the database, the creation calls
\* issued so far, whether one raised, and the database before the last one.
\* Creation call number fail.at is rejected by the server at fail.stmt.
RECURSIVE run_creations(_, _, _)
run_creations(st, cs, fail) ==
    IF cs = <<>> \/ st.raised
    THEN st
    ELSE LET r == run_creation(st.db, Head(cs),
                               IF Len(st.issued) + 1 = fail.at
                               THEN fail.stmt ELSE 0)
         IN run_creations([db |-> r.db,
                           issued |-> Append(st.issued, Head(cs)),
                           raised |-> ~r.ok,
                           pre |-> st.db],
                          Tail(cs), fail)

\* db.create_indexes(db_name, tmp_db_name, configs): the configurations from
\* number n on.
RECURSIVE create_indexes(_, _, _, _, _)
create_indexes(st, db_name, configs, n, fail) ==
    IF n > Len(configs) \/ st.raised
    THEN st
    ELSE IF db_name \notin Range(configs[n].dbs)
    THEN create_indexes(st, db_name, configs, n + 1, fail)
    ELSE create_indexes(
             run_creations(st,
                           config_creations(
                               get_indexes(st.db, configs[n].schemas),
                               configs[n], 1),
                           fail),
             db_name, configs, n + 1, fail)

\* ------------------------------------------------------------ control flow
\* Variables no step of a run changes.
fixed == <<files, format, clock, run, catalog0, roles0, ledger0, updated0,
           stalevars, idxvars, schvars, connvars>>
dbstate == <<catalog, roles, tmp_dbs_created, roles_created, uuids>>
locals == <<dataset_updated, file_maps, i, download_path, tmp_db_name>>

Goto(l) == pc' = l /\ UNCHANGED <<failed_at, j, cleanup_failed>>

\* An exception reaches start's `except Exception`: the traceback is printed
\* and _clean_up(download_path) is called.
Raise(step) ==
    /\ pc' = "clean_download"
    /\ failed_at' = step
    /\ j' = 1
    /\ UNCHANGED cleanup_failed

\* An exception leaves _clean_up, and with it start().
Escape(step) ==
    /\ pc' = "raised"
    /\ cleanup_failed' = step
    /\ UNCHANGED <<j, failed_at>>

\* A call that only succeeds or raises.
Step(from, to) ==
    /\ pc = from
    /\ \/ Goto(to)
       \/ Raise(from)
    /\ UNCHANGED <<dbstate, disk, locals, trace, catalogB, result, fixed>>

\* Faulty variant of the loop variable of sync.py:29: always the first
\* qualifying target.
cur_first == file_maps[1]

\* The loop variable of sync.py:29-30.
cur == file_maps[i]
stamp(step) == [catalog EXCEPT ![tmp_db_name].built = @ \cup {step}]

\* A call that marks the staging database or raises.
BuildStep(from, to) ==
    /\ pc = from
    /\ \/ /\ Goto(to)
          /\ catalog' = stamp(from)
          /\ trace' = Append(trace, Op(from, tmp_db_name, NoName, i))
       \/ /\ Raise(from)
          /\ UNCHANGED <<catalog, trace>>
    /\ UNCHANGED <<roles, tmp_dbs_created, roles_created, uuids, disk, locals,
                   catalogB, result, fixed>>

\* ------------------------------------------------------------------ start
\* A call of start() (sync.py:14-19): the locals are fresh, the ledger lists
\* are the module's.
StartRun ==
    /\ pc = "idle"
    /\ run < MaxRuns
    /\ run' = run + 1
    /\ pc' = "load_config"
    /\ result' = <<>>
    /\ dataset_updated' = None
    /\ file_maps' = <<>>
    /\ i' = 1
    /\ j' = 1
    /\ download_path' = NoName
    /\ tmp_db_name' = NoName
    /\ trace' = <<>>
    /\ failed_at' = ""
    /\ cleanup_failed' = ""
    /\ catalog0' = catalog
    /\ roles0' = roles
    /\ ledger0' = <<tmp_dbs_created, roles_created>>
    /\ catalogB' = catalog
    /\ updated0' = IF result = <<RC_OK>> THEN dataset_updated ELSE None
    /\ UNCHANGED <<files, format, clock, dbstate, disk, stalevars, idxvars,
                   schvars, connvars>>

\* Time passes between two runs.
Tick ==
    /\ pc = "idle"
    /\ run >= 1
    /\ clock < MaxClock
    /\ clock' = clock + 1
    /\ UNCHANGED <<files, format, dbstate, disk, run, pc, result, locals, j,
                   trace, failed_at, cleanup_failed, catalog0, roles0, ledger0, catalogB,
                   updated0, stalevars, idxvars, schvars, connvars>>

\* utils.load_config()
LoadConfig == Step("load_config", "get_dataset_update_date")

\* dataset.get_dataset_update_date(...): a date, None, or an error.
GetDatasetUpdateDate ==
    /\ pc = "get_dataset_update_date"
    /\ \/ /\ \E d \in {None} \cup 1..MaxDate : dataset_updated' = d
          /\ Goto("should_restore_db")
       \/ /\ Raise("get_dataset_update_date")
          /\ UNCHANGED dataset_updated
    /\ UNCHANGED <<dbstate, disk, file_maps, i, download_path, tmp_db_name,
                   trace, catalogB, result, fixed>>

\* One element of the list comprehension of sync.py:21.
ShouldRestoreDb ==
    /\ pc = "should_restore_db"
    /\ LET fm == files[i]
           name == ProdName(fm.db_name)
           keep == should_restore_db(db_exists(catalog, name),
                                     get_db_creation_date(catalog, name),
                                     dataset_updated)
       IN \/ /\ file_maps' = IF keep THEN Append(file_maps, fm) ELSE file_maps
             /\ IF i < Len(files)
                THEN i' = i + 1 /\ Goto("should_restore_db")
                ELSE i' = 1 /\ Goto("check_file_maps")
          \/ /\ Raise("should_restore_db")
             /\ UNCHANGED <<file_maps, i>>
    /\ UNCHANGED <<dbstate, disk, dataset_updated, download_path, tmp_db_name,
                   trace, catalogB, result, fixed>>

\* Faulty variant of the test of sync.py:23: never true.
nothing_to_do_never(fms) == FALSE

\* sync.py:23-25: nothing to restore.
nothing_to_do(fms) == fms = <<>>

CheckFileMaps ==
    /\ pc = "check_file_maps"
    /\ IF nothing_to_do(file_maps)
       THEN pc' = "idle" /\ result' = <<RC_NOTHING>>
       ELSE pc' = "place_order" /\ UNCHANGED result
    /\ UNCHANGED <<dbstate, disk, locals, j, trace, failed_at, cleanup_failed,
                   catalogB, fixed>>

\* ------------------------------------------------------ _download_dataset
\* dataset.place_order(config)
PlaceOrder ==
    /\ pc = "place_order"
    /\ \/ /\ Goto("download_file")
          /\ trace' = Append(trace, Op("place_order", NoName, NoName, 0))
       \/ /\ Raise("place_order")
          /\ UNCHANGED trace
    /\ UNCHANGED <<dbstate, disk, locals, catalogB, result, fixed>>

\* dataset.download_file: the directory is made before the transfer, which
\* may raise before or after it.
DownloadFile ==
    /\ pc = "download_file"
    /\ \/ /\ Goto("extract_archive")
          /\ disk' = disk \cup {DirOf(run)}
          /\ trace' = Append(trace, Op("download_file", DirOf(run), NoName, 0))
       \/ /\ Raise("download_file")
          /\ \E made \in BOOLEAN :
                disk' = IF made THEN disk \cup {DirOf(run)} ELSE disk
          /\ UNCHANGED trace
    /\ UNCHANGED <<dbstate, locals, catalogB, result, fixed>>

\* dataset.extract_archive, then `return download_path` to start().
ExtractArchive ==
    /\ pc = "extract_archive"
    /\ \/ /\ Goto("get_resource_path")
          /\ download_path' = DirOf(run)
          /\ i' = 1
       \/ /\ Raise("extract_archive")
          /\ UNCHANGED <<download_path, i>>
    /\ UNCHANGED <<dbstate, disk, dataset_updated, file_maps, tmp_db_name,
                   trace, catalogB, result, fixed>>

\* ------------------------------------------------------ _restore_database
\* dataset.get_resource_path, then utils' fresh staging name (sync.py:55-57).
GetResourcePath ==
    /\ pc = "get_resource_path"
    /\ \/ /\ Goto(IF cur.db_role # "" THEN "role_exists" ELSE "create_db")
          /\ uuids' = uuids + 1
          /\ tmp_db_name' = get_tmp_db_name(uuids + 1)
          /\ catalogB' = catalog
       \/ /\ Raise("get_resource_path")
          /\ UNCHANGED <<uuids, tmp_db_name, catalogB>>
    /\ UNCHANGED <<catalog, roles, tmp_dbs_created, roles_created, disk,
                   dataset_updated, file_maps, i, download_path, trace,
                   result, fixed>>

\* db.role_exists(file_map.db_role) (sync.py:59).
RoleExists ==
    /\ pc = "role_exists"
    /\ \/ Goto(IF role_exists(roles, cur.db_role)
               THEN "create_db" ELSE "create_role")
       \/ Raise("role_exists")
    /\ UNCHANGED <<dbstate, disk, locals, trace, catalogB, result, fixed>>

\* Faulty variant of the ledger append: the entry is not made.
record_never(ledger, name) == ledger

\* The ledger entry of an object just created (sync.py:61, 64).
record(ledger, name) == Append(ledger, name)

\* db.create_role, then roles_created.append (sync.py:60-61).
CreateRole ==
    /\ pc = "create_role"
    /\ \/ /\ Goto("create_db")
          /\ roles' = roles \cup {cur.db_role}
          /\ roles_created' = record(roles_created, cur.db_role)
          /\ trace' = Append(trace, Op("create_role", RoleName(cur.db_role),
                                       NoName, i))
       \/ /\ Raise("create_role")
          /\ UNCHANGED <<roles, roles_created, trace>>
    /\ UNCHANGED <<catalog, tmp_dbs_created, uuids, disk, locals, catalogB,
                   result, fixed>>

\* db.create_db(tmp_db_name), then tmp_dbs_created.append (sync.py:63-64).
CreateDb ==
    /\ pc = "create_db"
    /\ \/ /\ Goto("create_extension")
          /\ catalog' = create_db(catalog, tmp_db_name,
                           [oid |-> Len(files) + uuids,
                            created |-> DateOf(clock),
                            run |-> run, built |-> {}])
          /\ tmp_dbs_created' = record(tmp_dbs_created, tmp_db_name)
          /\ trace' = Append(trace, Op("create_db", tmp_db_name, NoName, i))
       \/ /\ Raise("create_db")
          /\ UNCHANGED <<catalog, tmp_dbs_created, trace>>
    /\ UNCHANGED <<roles, roles_created, uuids, disk, locals, catalogB,
                   result, fixed>>

\* db.create_extension(tmp_db_name, 'postgis'), then the branch on the
\* format (sync.py:66-71); the schema is file_map.db_schema or db_name.
CreateExtension ==
    BuildStep("create_extension",
              IF format = "FGDB"
              THEN IF cur.db_name # "public"
                   THEN "create_schema" ELSE "filegdb_to_postgis"
              ELSE "restore_database")

\* db.create_schema(tmp_db_name, schema)
CreateSchema == BuildStep("create_schema", "filegdb_to_postgis")

\* db.filegdb_to_postgis(resource_path, tmp_db_name, schema)
FilegdbToPostgis == BuildStep("filegdb_to_postgis", "create_indexes")

\* db.restore_database(resource_path, tmp_db_name): an unknown dump type or a
\* tool that cannot be started raises; the tool's exit status is not looked
\* at (check=False), so a failed restore returns like a successful one.
RestoreDatabase ==
    /\ pc = "restore_database"
    /\ \/ /\ Goto("rename_schemas")
          /\ \E exit_ok \in BOOLEAN :
                /\ catalog' = IF exit_ok THEN stamp("restore_database")
                              ELSE catalog
                /\ trace' = Append(trace,
                                   Op(IF exit_ok THEN "restore_database"
                                      ELSE "restore_database_exit_nonzero",
                                      tmp_db_name, NoName, i))
       \/ /\ Raise("restore_database")
          /\ UNCHANGED <<catalog, trace>>
    /\ UNCHANGED <<roles, tmp_dbs_created, roles_created, uuids, disk, locals,
                   catalogB, result, fixed>>

\* db.rename_schemas(tmp_db_name, schema)
RenameSchemas == BuildStep("rename_schemas", "create_indexes")

\* db.create_indexes(file_map.db_name, tmp_db_name, indexing_configs)
CreateIndexes == BuildStep("create_indexes", "set_db_comment")

\* db.set_db_comment(tmp_db_name)
SetDbComment == BuildStep("set_db_comment", "close_prod")

\* db.close_active_connections(file_map.db_name) (sync.py:83).
CloseProd == Step("close_prod", "db_exists")

\* db.db_exists(file_map.db_name) (sync.py:85).
DbExists ==
    /\ pc = "db_exists"
    /\ \/ Goto(IF db_exists(catalog, ProdName(cur.db_name))
               THEN "rename_backup" ELSE "close_tmp")
       \/ Raise("db_exists")
    /\ UNCHANGED <<dbstate, disk, locals, trace, catalogB, result, fixed>>

\* The backup-rename of the handover (sync.py:86): <<old, new>>.
backup_rename(db_name, tmp, now) ==
    <<ProdName(db_name), get_backup_db_name(db_name, now)>>

\* Faulty variant of the promote-rename: the staging database is renamed to
\* the schema name instead of file_map.db_name.
promote_rename_schema(db_name, tmp) == <<tmp, ProdName("public")>>

\* The promote-rename of the handover (sync.py:89): <<old, new>>.
promote_rename(db_name, tmp) == <<tmp, ProdName(db_name)>>

\* db.rename_db(old, new): the statement runs or raises.
RenameDb(from, to, names) ==
    /\ pc = from
    /\ \/ /\ can_rename_db(catalog, names[1], names[2])
          /\ catalog' = rename_db(catalog, names[1], names[2])
          /\ trace' = Append(trace, Op("rename_db", names[1], names[2], i))
          /\ to
       \/ /\ Raise(from)
          /\ UNCHANGED <<catalog, trace, i>>
    /\ UNCHANGED <<roles, tmp_dbs_created, roles_created, uuids, disk,
                   dataset_updated, file_maps, download_path, tmp_db_name,
                   catalogB, result, fixed>>

\* Backup-rename (sync.py:86).
RenameBackup ==
    RenameDb("rename_backup", Goto("close_tmp") /\ UNCHANGED i,
             backup_rename(cur.db_name, tmp_db_name, clock))

\* db.close_active_connections(tmp_db_name) (sync.py:88).
CloseTmp == Step("close_tmp", "rename_promote")

\* Promote-rename (sync.py:89), then the next target or the end of the loop.
RenamePromote ==
    RenameDb("rename_promote",
             IF i < Len(file_maps)
             THEN i' = i + 1 /\ Goto("get_resource_path")
             ELSE UNCHANGED i /\ Goto("delete_download"),
             promote_rename(cur.db_name, tmp_db_name))

\* utils.delete_file_or_dir(path): removes the tree; raises when the path
\* does not exist or cannot be removed.
\* sync.py:32-35: the archive is discarded and start returns 0.
DeleteDownload ==
    /\ pc = "delete_download"
    /\ \/ /\ download_path \in disk
          /\ disk' = disk \ {download_path}
          /\ pc' = "idle"
          /\ result' = <<RC_OK>>
          /\ UNCHANGED <<failed_at, j, cleanup_failed>>
       \/ /\ Raise("delete_download")
          /\ UNCHANGED <<disk, result>>
    /\ UNCHANGED <<dbstate, locals, trace, catalogB, fixed>>

\* --------------------------------------------------------------- _clean_up
\* The loops of sync.py:107-111 over the two ledger lists, from entry k.
AfterRoles(k) ==
    IF k <= Len(roles_created)
    THEN pc' = "clean_roles" /\ j' = k /\ UNCHANGED result
    ELSE pc' = "idle" /\ j' = k /\ result' = <<RC_ERROR>>

AfterDbs(k) ==
    IF k <= Len(tmp_dbs_created)
    THEN pc' = "clean_dbs" /\ j' = k /\ UNCHANGED result
    ELSE AfterRoles(1)

\* sync.py:104-105: `if download_path: utils.delete_file_or_dir(...)`.
CleanDownload ==
    /\ pc = "clean_download"
    /\ \/ /\ download_path = NoName
          /\ AfterDbs(1)
          /\ UNCHANGED <<disk, failed_at, cleanup_failed>>
       \/ /\ download_path # NoName
          /\ download_path \in disk
          /\ disk' = disk \ {download_path}
          /\ AfterDbs(1)
          /\ UNCHANGED <<failed_at, cleanup_failed>>
       \/ /\ download_path # NoName
          /\ Escape("delete_file_or_dir")
          /\ UNCHANGED <<disk, result>>
    /\ UNCHANGED <<dbstate, locals, trace, catalogB, fixed>>

\* sync.py:107-108: db.delete_db(db_name); an error leaves _clean_up.
CleanDbs ==
    /\ pc = "clean_dbs"
    /\ LET name == tmp_dbs_created[j]
       IN \/ /\ catalog' = delete_db(catalog, name)
             /\ trace' = IF name \in DOMAIN catalog
                         THEN Append(trace, Op("delete_db", name, NoName, 0))
                         ELSE trace
             /\ AfterDbs(j + 1)
             /\ UNCHANGED <<failed_at, cleanup_failed>>
          \/ /\ Escape("delete_db")
             /\ UNCHANGED <<catalog, trace, result>>
    /\ UNCHANGED <<roles, tmp_dbs_created, roles_created, uuids, disk, locals,
                   catalogB, fixed>>

\* sync.py:110-111: db.delete_role(role_name); an error leaves _clean_up.
CleanRoles ==
    /\ pc = "clean_roles"
    /\ LET r == roles_created[j]
       IN \/ /\ roles' = delete_role(roles, r)
             /\ trace' = IF r \in roles
                         THEN Append(trace, Op("delete_role", RoleName(r),
                                               NoName, 0))
                         ELSE trace
             /\ AfterRoles(j + 1)
             /\ UNCHANGED <<failed_at, cleanup_failed>>
          \/ /\ Escape("delete_role")
             /\ UNCHANGED <<roles, trace, result>>
    /\ UNCHANGED <<catalog, tmp_dbs_created, roles_created, uuids, disk,
                   locals, catalogB, fixed>>

\* ------------------------------------------------------------ specification
\* The databases that exist before the first run: each production name is
\* absent or holds a database created on InitCreated.
InitCatalogs ==
    { [n \in { ProdName(files[k].db_name) : k \in S } |->
          [oid |-> CHOOSE k \in S : ProdName(files[k].db_name) = n,
           created |-> InitCreated, run |-> 0, built |-> {"old"}]]
      : S \in SUBSET (1..Len(files)) }

InitProg ==
    /\ \E su \in Setups : files = su[1] /\ format = su[2]
    /\ clock = InitClock
    /\ catalog \in InitCatalogs
    /\ roles \in SUBSET {"r"}
    /\ disk = {}
    /\ tmp_dbs_created = <<>>
    /\ roles_created = <<>>
    /\ uuids = 0
    /\ run = 0
    /\ pc = "idle"
    /\ result = <<>>
    /\ dataset_updated = None
    /\ file_maps = <<>>
    /\ i = 1
    /\ j = 1
    /\ download_path = NoName
    /\ tmp_db_name = NoName
    /\ trace = <<>>
    /\ failed_at = ""
    /\ cleanup_failed = ""
    /\ catalog0 = catalog
    /\ roles0 = roles
    /\ ledger0 = <<<<>>, <<>>>>
    /\ catalogB = catalog
    /\ updated0 = None

\* A database with the indexes S: a primary key column is NOT NULL.
IndexDb(S) ==
    [indexes |-> S,
     not_null |-> { pk_col(x.schema_name, x.table_name, x.indexed_columns[1]) :
                       x \in { y \in S : y.is_primary } },
     identity |-> {}]

\* The connection harness at rest.
ConnIdle ==
    /\ k_pids = <<>>
    /\ k_broken = {}
    /\ k_out = <<>>

\* The schema harness at rest.
SchIdle ==
    /\ n_schemas = {}
    /\ n_prefix = <<"d">>
    /\ n_out = <<>>

\* The index harness at rest.
IdxIdle ==
    /\ x_db = IndexDb({})
    /\ x_configs = <<>>
    /\ x_calls = <<>>

StaleIdle ==
    /\ s_in = [db_name |-> "a", exists |-> FALSE, created |-> None,
               updated |-> None]
    /\ s_out = <<>>

Init == InitProg /\ StaleIdle /\ IdxIdle /\ SchIdle /\ ConnIdle

Next ==
    \/ StartRun
    \/ Tick
    \/ LoadConfig
    \/ GetDatasetUpdateDate
    \/ ShouldRestoreDb
    \/ CheckFileMaps
    \/ PlaceOrder
    \/ DownloadFile
    \/ ExtractArchive
    \/ GetResourcePath
    \/ RoleExists
    \/ CreateRole
    \/ CreateDb
    \/ CreateExtension
    \/ CreateSchema
    \/ FilegdbToPostgis
    \/ RestoreDatabase
    \/ RenameSchemas
    \/ CreateIndexes
    \/ SetDbComment
    \/ CloseProd
    \/ DbExists
    \/ RenameBackup
    \/ CloseTmp
    \/ RenamePromote
    \/ DeleteDownload
    \/ CleanDownload
    \/ CleanDbs
    \/ CleanRoles

Spec == Init /\ [][Next]_vars

\* ------------------------------------------- _should_restore_db on its own
\* The staleness decision over all its inputs: whether the target exists,
\* the creation date read for it (None when the query returns no row) and
\* the upstream update date (None when the feed gives none).
StaleInputs ==
    [db_name : DbNames, exists : BOOLEAN,
     created : {None} \cup 1..MaxDate, updated : {None} \cup 1..MaxDate]

InitStale ==
    /\ InitProg
    /\ IdxIdle
    /\ SchIdle
    /\ ConnIdle
    /\ s_in \in StaleInputs
    /\ s_out = <<>>

StaleCall ==
    /\ s_out = <<>>
    /\ s_out' = <<should_restore_db(s_in.exists, s_in.created, s_in.updated)>>
    /\ UNCHANGED <<s_in, progvars, idxvars, schvars, connvars>>

NextStale == StaleCall

SpecStale == InitStale /\ [][NextStale]_vars

\* ------------------------------------------- db.create_indexes on its own
\* config.indexing entries (models/indexing_config.py).
IndexingConfig(dbs, schemas, tables, id_column, geom_index, indexes) ==
    [dbs |-> dbs, schemas |-> schemas, tables |-> tables,
     id_column |-> id_column, geom_index |-> geom_index, indexes |-> indexes]

IndexingConfigs ==
    { IndexingConfig(<<"a">>, ss, ts, id, g, ix) :
        ss \in {<<"public">>, <<"public", "other">>},
        ts \in {<<"t">>, <<"t", "u">>},
        id \in {"", "id"},
        g \in BOOLEAN,
        ix \in {<<>>, << <<"a", "b">> >>, << <<"a">>, <<"a", "b">> >>} }

\* The values of config.indexing: none, one entry, an entry that lists the
\* id column as a column group, an entry that lists a column group twice, an
\* entry for another database followed by one for this one, and two entries
\* for this one.
IndexingLists ==
    {<<>>}
    \cup { <<c>> : c \in IndexingConfigs }
    \cup { << IndexingConfig(<<"a">>, <<"public">>, <<"t">>, "id", FALSE,
                             << <<"id">> >>) >>,
           << IndexingConfig(<<"a">>, <<"public">>, <<"t">>, "", FALSE,
                             << <<"a">>, <<"a">> >>) >> }
    \cup { << IndexingConfig(<<"b">>, <<"public">>, <<"t">>, "id", TRUE,
                             << <<"a">> >>),
              IndexingConfig(<<"a", "b">>, <<"public">>, <<"t">>, "id", TRUE,
                             << <<"a", "b">> >>) >>,
           << IndexingConfig(<<"a", "b">>, <<"public">>, <<"t">>, "id", TRUE,
                             << <<"a", "b">> >>),
              IndexingConfig(<<"a">>, <<"public">>, <<"t", "u">>, "id", FALSE,
                             << <<"b", "a">>, <<"a">> >>) >> }

\* The indexes the restored data may bring along.
RestoredIndexes ==
    { Index("public", "t", "btree", TRUE, <<"id">>, pkey_name("t")),
      Index("public", "t", "btree", FALSE, <<"a", "b">>,
            index_name("t", <<"a", "b">>)),
      Index("public", "t", "btree", FALSE, <<"b", "a">>,
            index_name("t", <<"b", "a">>)),
      Index("public", "t", "btree", FALSE, <<"a">>, index_name("t", <<"a">>)),
      Index("public", "t", "gist", FALSE, <<"shape">>,
            geom_index_name("t", "shape")),
      Index("public", "t", "gist", FALSE, <<"shape", "a">>,
            <<"t", <<"shape", "a">>, "gist">>),
      Index("public", "t", "gist", FALSE, <<"a", "shape">>,
            <<"t", <<"a", "shape">>, "gist">>),
      Index("public", "u", "btree", TRUE, <<"id">>, pkey_name("u")),
      Index("public", "u", "btree", FALSE, <<"a", "b">>,
            index_name("u", <<"a", "b">>)),
      Index("other", "t", "gist", FALSE, <<"shape">>,
            geom_index_name("t", "shape")),
      Index("other", "t", "btree", FALSE, <<"a", "b">>,
            index_name("t", <<"a", "b">>)) }

\* The staging database after the restore: at most MaxIndexes indexes.
RestoredDbs ==
    { IndexDb(S) : S \in { T \in SUBSET RestoredIndexes :
                              Cardinality(T) <= MaxIndexes } }

\* The rejections the server may make during one call.
NoFail == [at |-> 0, stmt |-> 0]
Fails == {NoFail} \cup [at : 1..MaxFailAt, stmt : 1..4]

InitIdx ==
    /\ InitProg
    /\ format = "PostGIS"
    /\ catalog = <<>>
    /\ roles = {}
    /\ StaleIdle
    /\ SchIdle
    /\ ConnIdle
    /\ x_db \in RestoredDbs
    /\ x_configs \in IndexingLists
    /\ x_calls = <<>>

\* A call create_indexes("a", tmp_db_name, config.indexing) on the staging
\* database.
CreateIndexesCall ==
    /\ Len(x_calls) < MaxCalls
    /\ \E fail \in Fails :
          LET st == create_indexes([db |-> x_db, issued |-> <<>>,
                                    raised |-> FALSE, pre |-> x_db],
                                   "a", x_configs, 1, fail)
          IN /\ x_db' = st.db
             /\ x_calls' = Append(x_calls,
                                  [before |-> x_db, db |-> st.db,
                                   issued |-> st.issued,
                                   raised |-> st.raised, pre |-> st.pre])
    /\ UNCHANGED <<x_configs, progvars, stalevars, schvars, connvars>>

NextIdx == CreateIndexesCall

SpecIdx == InitIdx /\ [][NextIdx]_vars

\* -------------------------------------------- db.rename_schemas on its own
\* Schema names are strings, modelled as sequences of characters.
SchemaChars == {"d", "x", "_"}
SchemaNames == UNION { [1..n -> SchemaChars] : n \in 1..MaxNameLen }

\* str.rfind('_'): the highest 0-based index of '_', or -1.
rfind_underscore(name) ==
    IF \E k \in 1..Len(name) : name[k] = "_"
    THEN (CHOOSE k \in 1..Len(name) :
             name[k] = "_" /\ \A l \in (k + 1)..Len(name) : name[l] # "_") - 1
    ELSE -1

\* The slice name[0:index] of Python: a negative index counts from the end.
slice_to(name, index) ==
    LET stop == IF index < 0 THEN Len(name) + index ELSE index
    IN SubSeq(name, 1, IF stop < 0 THEN 0
                       ELSE IF stop > Len(name) THEN Len(name) ELSE stop)

\* nspname LIKE prefix || '%': in the pattern '_' stands for any character.
like_prefix(name, prefix) ==
    /\ Len(name) >= Len(prefix)
    /\ \A k \in 1..Len(prefix) : prefix[k] = "_" \/ prefix[k] = name[k]

\* db.get_schema_names(db_name, prefix)
get_schema_names(schemas, prefix) ==
    { name \in schemas : like_prefix(name, prefix) }

\* The new name rename_schemas computes for a schema (db.py:209-210).
new_schema_name(name) == slice_to(name, rfind_underscore(name))

\* ALTER SCHEMA name RENAME TO new_name: rejected when the new name is empty
\* or taken, or when the server fails.
can_rename_schema(schemas, name, new_name) ==
    name \in schemas /\ new_name # <<>> /\ new_name \notin schemas

\* The statements of rename_schemas, run one after the other in autocommit
\* mode on the names in the order `names`; statement number fail_at is
\* rejected by the server. The first rejected statement raises.
RECURSIVE run_renames(_, _, _)
run_renames(st, names, fail_at) ==
    IF names = <<>> \/ st.raised
    THEN st
    ELSE LET name == Head(names)
             new_name == new_schema_name(name)
             ok == /\ Len(st.renamed) + 1 # fail_at
                   /\ can_rename_schema(st.schemas, name, new_name)
         IN run_renames(
                IF ok
                THEN [schemas |-> (st.schemas \ {name}) \cup {new_name},
                      renamed |-> Append(st.renamed, <<name, new_name>>),
                      raised |-> FALSE]
                ELSE [st EXCEPT !.raised = TRUE],
                Tail(names), fail_at)

\* db.rename_schemas(db_name, prefix), the rows of get_schema_names coming in
\* the order `names`.
rename_schemas(schemas, names, fail_at) ==
    run_renames([schemas |-> schemas, renamed |-> <<>>, raised |-> FALSE],
                names, fail_at)

\* The orders in which a query may return the names S.
Orders(S) ==
    { q \in [1..Cardinality(S) -> S] :
        \A k, l \in 1..Cardinality(S) : k # l => q[k] # q[l] }

\* The prefixes given to rename_schemas: file_map.db_schema or db_name.
SchemaPrefixes == { <<"d">>, <<"d", "x">>, <<"d", "_">> }

\* The schemas of the staging database after the restore: at most
\* MaxSchemas of them.
RestoredSchemas ==
    {{}} \cup { Range(q) : q \in [1..MaxSchemas -> SchemaNames] }

InitSch ==
    /\ InitProg
    /\ format = "PostGIS"
    /\ catalog = <<>>
    /\ roles = {}
    /\ StaleIdle
    /\ IdxIdle
    /\ ConnIdle
    /\ n_schemas \in RestoredSchemas
    /\ n_prefix \in SchemaPrefixes
    /\ n_out = <<>>

\* A call rename_schemas(tmp_db_name, prefix) (sync.py:77).
RenameSchemasCall ==
    /\ n_out = <<>>
    /\ \E names \in Orders(get_schema_names(n_schemas, n_prefix)),
          fail_at \in 0..MaxSchemas :
          LET st == rename_schemas(n_schemas, names, fail_at)
          IN /\ n_schemas' = st.schemas
             /\ n_out' = <<[before |-> n_schemas, renamed |-> st.renamed,
                            raised |-> st.raised]>>
    /\ UNCHANGED <<n_prefix, progvars, stalevars, idxvars, connvars>>

NextSch == RenameSchemasCall

SpecSch == InitSch /\ [][NextSch]_vars

\* ------------------------------------ db.close_active_connections on its own
\* The outcome of a call: the pids a pg_terminate_backend was executed for,
\* in order, the number that succeeded, and whether the call raised.
CloseOutcome(attempted, count, raised, fail) ==
    [attempted |-> attempted, count |-> count, raised |-> raised,
     fail |-> fail]

\* Faulty variant of the loop of close_active_connections: no try around the
\* statement, so the first failure raises.
RECURSIVE terminate_all_raising(_, _, _)
terminate_all_raising(st, pids, broken) ==
    IF pids = <<>> \/ st.raised
    THEN st
    ELSE terminate_all_raising(
             [attempted |-> Append(st.attempted, Head(pids)),
              count |-> IF Head(pids) \in broken THEN st.count
                        ELSE st.count + 1,
              aborted |-> FALSE,
              raised |-> Head(pids) \in broken],
             Tail(pids), broken)

\* The loop of db.py:172-178: one statement per pid on one connection; a
\* statement that fails is printed and the loop goes on. The connection is
\* not in autocommit mode, so after a failed statement the server rejects
\* the following ones of the same transaction as well.
RECURSIVE terminate_all(_, _, _)
terminate_all(st, pids, broken) ==
    IF pids = <<>>
    THEN st
    ELSE LET failed == Head(pids) \in broken \/ st.aborted
         IN terminate_all(
                [attempted |-> Append(st.attempted, Head(pids)),
                 count |-> IF failed THEN st.count ELSE st.count + 1,
                 aborted |-> failed,
                 raised |-> FALSE],
                Tail(pids), broken)

\* Faulty variant of close_active_connections: the loop without the try.
close_active_connections_raising(pids, broken, fail) ==
    IF fail = "query"
    THEN CloseOutcome(<<>>, 0, TRUE, fail)
    ELSE IF pids = <<>>
    THEN CloseOutcome(<<>>, 0, FALSE, "none")
    ELSE IF fail = "connect"
    THEN CloseOutcome(<<>>, 0, TRUE, fail)
    ELSE LET st == terminate_all_raising([attempted |-> <<>>, count |-> 0,
                                          aborted |-> FALSE, raised |-> FALSE],
                                         pids, broken)
         IN CloseOutcome(st.attempted, st.count, st.raised, fail)

\* db.close_active_connections(db_name): get_active_connections returned
\* pids, or raised (fail = "query"); get_connection('postgres') may raise
\* (fail = "connect").
close_active_connections(pids, broken, fail) ==
    IF fail = "query"
    THEN CloseOutcome(<<>>, 0, TRUE, fail)
    ELSE IF pids = <<>>
    THEN CloseOutcome(<<>>, 0, FALSE, "none")
    ELSE IF fail = "connect"
    THEN CloseOutcome(<<>>, 0, TRUE, fail)
    ELSE LET st == terminate_all([attempted |-> <<>>, count |-> 0,
                                  aborted |-> FALSE, raised |-> FALSE],
                                 pids, broken)
         IN CloseOutcome(st.attempted, st.count, st.raised, fail)

\* The backends connected to the database, as get_active_connections lists
\* them.
PidLists == UNION { Orders(S) : S \in SUBSET (1..MaxPids) }

InitConn ==
    /\ InitProg
    /\ format = "PostGIS"
    /\ catalog = <<>>
    /\ roles = {}
    /\ StaleIdle
    /\ IdxIdle
    /\ SchIdle
    /\ k_pids \in PidLists
    /\ k_broken \in SUBSET (1..MaxPids)
    /\ k_out = <<>>

\* A call close_active_connections(db_name) (sync.py:83, 88).
CloseActiveConnectionsCall ==
    /\ k_out = <<>>
    /\ \E fail \in {"none", "query", "connect"} :
          k_out' = <<close_active_connections(k_pids, k_broken, fail)>>
    /\ UNCHANGED <<k_pids, k_broken, progvars, stalevars, idxvars, schvars>>

NextConn == CloseActiveConnectionsCall

SpecConn == InitConn /\ [][NextConn]_vars

\* ======================================================== properties
\* start() has returned code c.
Returned(c) == pc = "idle" /\ result = <<c>>

\* The production names of the configured targets.
ProdNames == { ProdName(files[k].db_name) : k \in 1..Len(files) }

\* The renames of this run, read from the trace.
Renames == { trace[k] : k \in { m \in 1..Len(trace) : trace[m].op = "rename_db" } }
BackupRenamed(n) == \E e \in Renames : e.a = n /\ IsBackup(e.b)
Promoted(n) == \E e \in Renames : e.b = n /\ IsTmp(e.a)

FailedBetweenCreateAndRename ==
    /\ failed_at \in {"create_extension", "create_schema",
                      "filegdb_to_postgis", "restore_database",
                      "rename_schemas", "create_indexes", "set_db_comment",
                      "close_prod", "db_exists", "close_tmp"}
    /\ \A e \in Renames : e.t # i

\* The roles the build of target t created in this run.
RolesCreatedBy(t) ==
    { trace[k].a[2] : k \in { m \in 1..Len(trace) :
                                trace[m].op = "create_role" /\ trace[m].t = t } }

Oids(cat) == { cat[n].oid : n \in DOMAIN cat }
NameOf(cat, o) == CHOOSE n \in DOMAIN cat : cat[n].oid = o

\* C3: The only databases ever dropped are staging databases that this run
\* created and that still carry their staging name: a database under a
\* production name or a backup name is never dropped, and a production name
\* changes what it refers to only in a rename_db step.
C3_OnlyStagingDropped ==
    [][ /\ \A o \in Oids(catalog) \ Oids(catalog') :
              LET n == NameOf(catalog, o)
              IN /\ IsTmp(n)
                 /\ catalog[n].run = run
                 /\ n \in Range(tmp_dbs_created)
        /\ \A n \in ProdNames :
              ( \/ (n \in DOMAIN catalog) # (n \in DOMAIN catalog')
                \/ /\ n \in DOMAIN catalog /\ n \in DOMAIN catalog'
                   /\ catalog[n].oid # catalog'[n].oid )
              => /\ Len(trace') = Len(trace) + 1
                 /\ trace'[Len(trace')].op = "rename_db"
                 /\ n \in {trace'[Len(trace')].a, trace'[Len(trace')].b}
      ]_vars

\* C3 witness: cleanup has dropped a staging database while a backup and a
\* promoted database of this run are in the catalog.
C3_Witness ==
    /\ Returned(RC_ERROR)
    /\ \E k \in 1..Len(trace) : trace[k].op = "delete_db"
    /\ \E n \in DOMAIN catalog : IsBackup(n)
    /\ \E n \in ProdNames : Promoted(n)

\* C4: Completed swaps are not rolled back. After a target has been promoted
\* in this run, and in particular after a later target failed and _clean_up
\* ran, its production name holds the database built in this run and the
\* backup taken for it is still in the catalog.
C4_SwapsNotRolledBack ==
    \A e \in Renames :
        /\ (IsTmp(e.a) /\ IsProd(e.b)) =>
              /\ e.b \in DOMAIN catalog
              /\ catalog[e.b].oid = Len(files) + e.a[3]
              /\ catalog[e.b].run = run
        /\ IsBackup(e.b) =>
              /\ e.b \in DOMAIN catalog
              /\ catalog[e.b] = catalog0[e.a]

\* C4 witness: the first target was swapped (with a backup), the second
\* failed after its staging database was created, and _clean_up returned.
C4_Witness ==
    /\ Returned(RC_ERROR)
    /\ i = 2
    /\ FailedBetweenCreateAndRename
    /\ \E e \in Renames : e.t = 1 /\ IsBackup(e.b)
    /\ \E e \in Renames : e.t = 1 /\ IsTmp(e.a)

\* C5: Cleanup removes only objects of targets that were never promoted: a
\* role this run created for a target that was promoted is still there when
\* _clean_up has returned.
C5_PromotedRolesKept ==
    Returned(RC_ERROR) =>
        \A t \in 1..Len(file_maps) :
            Promoted(ProdName(file_maps[t].db_name)) =>
                RolesCreatedBy(t) \subseteq roles

\* C6: Cleanup is best-effort: a delete_db or delete_role that fails does
\* not end _clean_up, so no failure of one of them leaves _clean_up.
C6_CleanupBestEffort ==
    cleanup_failed \notin {"delete_db", "delete_role"}

\* C7: Ledger immediacy. A staging database that is in the catalog under its
\* staging name is in tmp_dbs_created, and a role that is there now and was
\* not when the run started is in roles_created, in every state (so also in
\* the state in which the next call raises).
C7_LedgerImmediacy ==
    /\ \A n \in DOMAIN catalog : IsTmp(n) => n \in Range(tmp_dbs_created)
    /\ \A r \in roles \ roles0 : r \in Range(roles_created)

\* C7 witness: the call that follows create_db is about to run, with a role
\* and a staging database created by this build.
C7_Witness ==
    /\ pc = "create_extension"
    /\ tmp_db_name \in DOMAIN catalog
    /\ RolesCreatedBy(i) # {}

\* C8: When start returns success the ledger is empty, and a later run does
\* not drop a role that an earlier, successful run recorded.
C8_LedgerClearedOnSuccess ==
    /\ Returned(RC_OK) => (tmp_dbs_created = <<>> /\ roles_created = <<>>)
    /\ \A r \in roles0 \cap Range(ledger0[2]) : r \in roles

\* C9: Staleness correctness. _should_restore_db returns true when the
\* target does not exist, when it exists and a date is unknown, and when it
\* exists and upstream date >= creation date; it returns false exactly when
\* it exists, both dates are known and upstream date < creation date.
C9_Staleness ==
    s_out # <<>> =>
        LET known == s_in.created # None /\ s_in.updated # None
        IN /\ ~s_in.exists => s_out[1]
           /\ (s_in.exists /\ ~known) => s_out[1]
           /\ (s_in.exists /\ known /\ s_in.updated >= s_in.created)
                 => s_out[1]
           /\ ~s_out[1] <=>
                 (s_in.exists /\ known /\ s_in.updated < s_in.created)

\* C9 witness: the target exists and the upstream date is the creation date.
C9_Witness ==
    /\ s_out = <<TRUE>>
    /\ s_in.exists
    /\ s_in.created # None
    /\ s_in.updated = s_in.created

\* Every configured target has been evaluated and none needs a refresh.
NoneQualifies ==
    /\ run >= 1
    /\ pc \notin {"load_config", "get_dataset_update_date",
                  "should_restore_db"}
    /\ failed_at \notin {"load_config", "get_dataset_update_date",
                         "should_restore_db"}
    /\ file_maps = <<>>

\* C10: Nothing to do. When the staleness evaluation is false for every
\* target, start returns the 'nothing to do' code: nothing was ordered or
\* downloaded, no database or role was created, renamed or dropped, and the
\* ledger is as it was.
C10_NothingToDo ==
    NoneQualifies =>
        /\ pc = "check_file_maps" \/ Returned(RC_NOTHING)
        /\ trace = <<>>
        /\ download_path = NoName
        /\ catalog = catalog0
        /\ roles = roles0
        /\ <<tmp_dbs_created, roles_created>> = ledger0

\* C10 witness: start returned 'nothing to do' with both targets in place.
C10_Witness ==
    /\ Returned(RC_NOTHING)
    /\ ProdNames \subseteq DOMAIN catalog

\* C11: Exit convention. A call of start() ends by returning one of the
\* three codes and in no other way: an exception, wherever it is raised
\* (also inside _clean_up), ends in the error code being returned.
C11_ExitConvention ==
    /\ pc # "raised"
    /\ (pc = "idle" /\ run >= 1) =>
          result \in {<<RC_OK>>, <<RC_NOTHING>>, <<RC_ERROR>>}
    /\ (pc = "idle" /\ failed_at # "") => Returned(RC_ERROR)

\* Target k of the configuration has been through the staleness filter of
\* this run.
Evaluated(k) ==
    /\ run >= 1
    /\ pc \notin {"load_config", "get_dataset_update_date"}
    /\ failed_at \notin {"load_config", "get_dataset_update_date"}
    /\ (pc = "should_restore_db" \/ failed_at = "should_restore_db") => k < i

\* C12: First-time refresh. A target whose production database does not
\* exist when the run starts qualifies whatever the upstream date is, and
\* when the run returns success its production name holds a database built
\* in this run, no backup-rename was issued and no backup database exists
\* for it, and no staging database is left.
C12_FirstTimeRefresh ==
    \A k \in 1..Len(files) :
        LET n == ProdName(files[k].db_name)
        IN (run >= 1 /\ n \notin DOMAIN catalog0) =>
              /\ Evaluated(k) => files[k] \in Range(file_maps)
              /\ Returned(RC_OK) =>
                    /\ n \in DOMAIN catalog
                    /\ catalog[n].run = run
                    /\ ~BackupRenamed(n)
                    /\ \A m \in DOMAIN catalog \ DOMAIN catalog0 :
                          ~(IsBackup(m) /\ m[2] = files[k].db_name)
                    /\ \A m \in DOMAIN catalog : ~IsTmp(m)

\* C12 witness: a run returned success for a target that did not exist when
\* it started, evaluated against a known upstream date.
C12_Witness ==
    /\ Returned(RC_OK)
    /\ dataset_updated # None
    /\ \E k \in 1..Len(files) :
          /\ ProdName(files[k].db_name) \notin DOMAIN catalog0
          /\ ProdName(files[k].db_name) \in DOMAIN catalog

\* The position of a target in config.dataset.files.
PosInFiles(fm) == CHOOSE k \in 1..Len(files) : files[k] = fm

\* The steps of _restore_database.
BuildLabels ==
    {"get_resource_path", "role_exists", "create_role", "create_db",
     "create_extension", "create_schema", "filegdb_to_postgis",
     "restore_database", "rename_schemas", "create_indexes",
     "set_db_comment", "close_prod", "db_exists", "rename_backup",
     "close_tmp", "rename_promote"}

\* C13: Strictly sequential targets. The qualifying targets are in
\* configuration order; the operations of the run are grouped by target in
\* that order; an operation of target t > 1 comes after the promote-rename
\* of target t - 1 to its production name; the renames of target t concern
\* that target's production name; and once a target has failed no operation
\* of a later target is in the run.
C13_Sequential ==
    /\ \A k, l \in 1..Len(file_maps) :
          k < l => PosInFiles(file_maps[k]) < PosInFiles(file_maps[l])
    /\ \A k, l \in 1..Len(trace) :
          (k < l /\ trace[k].t > 0 /\ trace[l].t > 0) =>
              trace[k].t <= trace[l].t
    /\ \A l \in 1..Len(trace) :
          trace[l].t > 1 =>
              \E k \in 1..(l - 1) :
                  /\ trace[k].op = "rename_db"
                  /\ trace[k].t = trace[l].t - 1
                  /\ IsTmp(trace[k].a)
                  /\ trace[k].b = ProdName(file_maps[trace[k].t].db_name)
    /\ \A e \in Renames :
          ProdName(file_maps[e.t].db_name) \in {e.a, e.b}
    /\ failed_at \in BuildLabels => \A k \in 1..Len(trace) : trace[k].t <= i

\* C13 witness: the first of two qualifying targets failed while it was
\* built, and _clean_up has returned.
C13_Witness ==
    /\ Returned(RC_ERROR)
    /\ Len(file_maps) = 2
    /\ i = 1
    /\ failed_at = "create_indexes"
    /\ \E k \in 1..Len(trace) : trace[k].op = "create_db"

\* A call of create_indexes in which no creation call raised.
Completed(k) == ~x_calls[k].raised

\* The creation calls of one kind that call k issued for a table.
IssuedFor(k, kind, schema_name, table_name) ==
    { m \in 1..Len(x_calls[k].issued) :
        /\ x_calls[k].issued[m].kind = kind
        /\ x_calls[k].issued[m].schema_name = schema_name
        /\ x_calls[k].issued[m].table_name = table_name }

\* C14: Idempotence of reconciliation. After a call of create_indexes in
\* which every creation call it decided on was executed, a second call with
\* the same config.indexing issues no creation call.
C14_Idempotent ==
    \A k \in 2..Len(x_calls) :
        Completed(k - 1) => x_calls[k].issued = <<>>

\* C14 witness: a first call created a primary key, a spatial index and a
\* column index, and a second call has been made.
C14_Witness ==
    /\ Len(x_calls) = 2
    /\ Completed(1)
    /\ \E m \in 1..Len(x_calls[1].issued) : x_calls[1].issued[m].kind = "pk"
    /\ \E m \in 1..Len(x_calls[1].issued) : x_calls[1].issued[m].kind = "geom"
    /\ \E m \in 1..Len(x_calls[1].issued) : x_calls[1].issued[m].kind = "index"

\* The one entry of config.indexing in a call with a single, applicable
\* entry.
TheConfig == x_configs[1]
SingleConfig == Len(x_configs) = 1 /\ "a" \in Range(TheConfig.dbs)

\* C15: Tie-break by column set. In a completed call, create_index is
\* issued for a column group of the configuration and a table iff the
\* indexes the database had at the start of the call hold none on that
\* schema and table with the same set of columns, whatever the order.
C15_ColumnSet ==
    \A k \in 1..Len(x_calls) :
        (SingleConfig /\ Completed(k)) =>
            \A s \in Range(TheConfig.schemas), t \in Range(TheConfig.tables),
               cs \in Range(TheConfig.indexes) :
                (\E m \in IssuedFor(k, "index", s, t) :
                     x_calls[k].issued[m].column_names = cs)
                <=> ~\E index \in x_calls[k].before.indexes :
                        /\ index.schema_name = s
                        /\ index.table_name = t
                        /\ Range(index.indexed_columns) = Range(cs)

\* C15 witness: the table had an index on (b, a); the call was asked for
\* (a) and (a, b) and created the first one only.
C15_Witness ==
    /\ Len(x_calls) >= 1
    /\ SingleConfig
    /\ Completed(1)
    /\ TheConfig.indexes = << <<"a">>, <<"a", "b">> >>
    /\ \E index \in x_calls[1].before.indexes :
          /\ index.schema_name = "public" /\ index.table_name = "t"
          /\ index.indexed_columns = <<"b", "a">>
    /\ \E m \in IssuedFor(1, "index", "public", "t") :
          x_calls[1].issued[m].column_names = <<"a">>
    /\ \A m \in IssuedFor(1, "index", "public", "t") :
          x_calls[1].issued[m].column_names # <<"a", "b">>

\* C16: Spatial index decision. In a completed call with geom_index set,
\* create_geom_index is issued for a geometry column of a table of the
\* configuration iff the indexes at the start of the call hold no gist index
\* on that schema and table whose only column is that column.
C16_SpatialSole ==
    \A k \in 1..Len(x_calls) :
        (SingleConfig /\ Completed(k) /\ TheConfig.geom_index) =>
            \A s \in Range(TheConfig.schemas), t \in Range(TheConfig.tables) :
                \A c \in Range(GeomColumnsOf(s, t)) :
                    (\E m \in IssuedFor(k, "geom", s, t) :
                         x_calls[k].issued[m].column_names = <<c>>)
                    <=> ~\E index \in x_calls[k].before.indexes :
                            /\ index.schema_name = s
                            /\ index.table_name = t
                            /\ index.index_type = "gist"
                            /\ index.indexed_columns = <<c>>

\* C17: Primary key decision. In a completed call with id_column set, for
\* every schema and table of the configuration exactly one
\* create_primary_key is issued when the indexes at the start of the call
\* hold no primary index of that table, and none when they hold one; after
\* an issued one the column is NOT NULL, an identity column and the primary
\* key.
C17_PrimaryKey ==
    \A k \in 1..Len(x_calls) :
        (SingleConfig /\ Completed(k) /\ TheConfig.id_column # "") =>
            \A s \in Range(TheConfig.schemas), t \in Range(TheConfig.tables) :
                LET had == \E index \in x_calls[k].before.indexes :
                               /\ index.schema_name = s
                               /\ index.table_name = t
                               /\ index.is_primary
                    col == pk_col(s, t, TheConfig.id_column)
                IN /\ Cardinality(IssuedFor(k, "pk", s, t))
                        = IF had THEN 0 ELSE 1
                   /\ ~had =>
                        /\ col \in x_calls[k].db.not_null
                        /\ col \in x_calls[k].db.identity
                        /\ \E index \in x_calls[k].db.indexes :
                              /\ index.schema_name = s
                              /\ index.table_name = t
                              /\ index.is_primary
                              /\ index.indexed_columns
                                     = <<TheConfig.id_column>>

\* C17 witness: of two tables one had a primary key; the call issued
\* create_primary_key for the other one only.
C17_Witness ==
    /\ Len(x_calls) >= 1
    /\ SingleConfig
    /\ Completed(1)
    /\ TheConfig.id_column = "id"
    /\ TheConfig.tables = <<"t", "u">>
    /\ has_primary_key(x_calls[1].before.indexes, "public", "u")
    /\ IssuedFor(1, "pk", "public", "t") # {}
    /\ IssuedFor(1, "pk", "public", "u") = {}

\* C18: Primary key atomicity. A create_primary_key that raised left the
\* database as it was before that call (none of NOT NULL, identity, primary
\* key), and one that returned made all three changes.
C18_PrimaryKeyAtomic ==
    \A k \in 1..Len(x_calls) :
        \A m \in 1..Len(x_calls[k].issued) :
            LET c == x_calls[k].issued[m]
                col == pk_col(c.schema_name, c.table_name, c.column_names[1])
                after == x_calls[k].db
            IN c.kind = "pk" =>
                  IF m = Len(x_calls[k].issued) /\ x_calls[k].raised
                  THEN /\ after = x_calls[k].pre
                       /\ col \notin after.not_null
                       /\ col \notin after.identity
                       /\ ~has_primary_key(after.indexes, c.schema_name,
                                           c.table_name)
                  ELSE /\ col \in after.not_null
                       /\ col \in after.identity
                       /\ has_primary_key(after.indexes, c.schema_name,
                                          c.table_name)

\* C18 witness: in one call a create_primary_key returned for one table and
\* a later one, for a table that exists, raised.
C18_Witness ==
    /\ Len(x_calls) >= 1
    /\ x_calls[1].raised
    /\ LET n == Len(x_calls[1].issued)
       IN /\ x_calls[1].issued[n].kind = "pk"
          /\ <<x_calls[1].issued[n].schema_name,
               x_calls[1].issued[n].table_name>> \in IdxTables
          /\ \E m \in 1..(n - 1) : x_calls[1].issued[m].kind = "pk"

\* C19: Loader failure is fatal. When the external loader ends with a
\* non-zero exit status, for either format, _restore_database raises: the
\* run is in _clean_up or has returned the error code, and no operation of
\* that target follows the load.
C19_LoaderExitFatal ==
    \A k \in 1..Len(trace) :
        trace[k].op = "restore_database_exit_nonzero" =>
            /\ failed_at = "restore_database"
            /\ \A l \in (k + 1)..Len(trace) : trace[l].t = 0

\* The steps that build a staging database of the configured format.
BuildSteps ==
    {IF format = "FGDB" THEN "filegdb_to_postgis" ELSE "restore_database",
     "create_indexes", "set_db_comment"}

\* C20: Fully built before visible. A database built by a run is under a
\* production name only if the load, create_indexes and set_db_comment all
\* completed for it; and when a step of the build raised, no rename of that
\* target was issued.
C20_FullyBuilt ==
    /\ \A n \in DOMAIN catalog :
          (IsProd(n) /\ catalog[n].run >= 1) =>
              BuildSteps \subseteq catalog[n].built
    /\ failed_at \in {"create_extension", "create_schema",
                      "filegdb_to_postgis", "restore_database",
                      "rename_schemas", "create_indexes", "set_db_comment"}
          => \A e \in Renames : e.t # i

\* start() has terminated: it returned a code or an exception left it.
Terminated == run >= 1 /\ pc \in {"idle", "raised"}

\* C21: Production never left absent. When start has terminated, with any
\* outcome and after a failure at any step, every production name that held
\* a database when the run started still holds one.
C21_ProductionNeverAbsent ==
    Terminated =>
        \A n \in ProdNames : n \in DOMAIN catalog0 => n \in DOMAIN catalog

\* C22: Safe re-run. In a run that follows a successful run, with the same
\* upstream update date, a target the earlier run refreshed is evaluated as
\* up to date (it is not among the qualifying targets, so nothing is built or
\* renamed for it), whatever the upstream date and the date of the earlier
\* run are.
C22_SafeRerun ==
    \A k \in 1..Len(files) :
        LET n == ProdName(files[k].db_name)
        IN ( /\ run >= 2
             /\ updated0 # None
             /\ dataset_updated = updated0
             /\ n \in DOMAIN catalog0
             /\ catalog0[n].run = run - 1
             /\ Evaluated(k) )
           => files[k] \notin Range(file_maps)

\* C23: Download cleanup. When a run failed at any point after acquisition
\* began (order, download, extraction, or a later build or swap step) and
\* _clean_up has returned, the download directory of this run is not on
\* disk.
C23_DownloadRemoved ==
    ( /\ Returned(RC_ERROR)
      /\ failed_at \in {"place_order", "download_file", "extract_archive",
                        "delete_download"} \cup BuildLabels )
    => DirOf(run) \notin disk

\* C24: Minimality within one pass. In a call of create_indexes no creation
\* call is issued for an index with the same schema, table and column set as
\* an index the database had at the start of the call or as one a creation
\* call issued earlier in the same call: a column group listed twice, or one
\* equal to the id column whose primary key was just created, gives one
\* creation call and not two.
C24_MinimalPass ==
    \A k \in 1..Len(x_calls) :
        \A m \in 1..Len(x_calls[k].issued) :
            LET c == x_calls[k].issued[m]
            IN /\ ~\E index \in x_calls[k].before.indexes :
                      /\ index.schema_name = c.schema_name
                      /\ index.table_name = c.table_name
                      /\ Range(index.indexed_columns) = Range(c.column_names)
               /\ ~\E l \in 1..(m - 1) :
                      /\ x_calls[k].issued[l].schema_name = c.schema_name
                      /\ x_calls[k].issued[l].table_name = c.table_name
                      /\ Range(x_calls[k].issued[l].column_names)
                             = Range(c.column_names)

\* n_prefix followed by '_' and a suffix without '_'.
HasDisposableSuffix(name, prefix) ==
    /\ Len(name) >= Len(prefix) + 2
    /\ SubSeq(name, 1, Len(prefix)) = prefix
    /\ name[Len(prefix) + 1] = "_"
    /\ \A k \in (Len(prefix) + 2)..Len(name) : name[k] # "_"

\* C25: Schema renaming. rename_schemas renames only schemas named as the
\* desired name followed by a disposable suffix, every schema it renames
\* ends up with exactly the desired name, and a schema that already has the
\* desired name is left unchanged.
C25_SchemaRenaming ==
    n_out # <<>> =>
        /\ \A k \in 1..Len(n_out[1].renamed) :
              /\ HasDisposableSuffix(n_out[1].renamed[k][1], n_prefix)
              /\ n_out[1].renamed[k][2] = n_prefix
        /\ n_prefix \in n_out[1].before => n_prefix \in n_schemas

\* The roles created in this run, in the order of their creation.
CreatedRoles ==
    LET ks == SelectSeq([k \in 1..Len(trace) |-> k],
                        LAMBDA k : trace[k].op = "create_role")
    IN [m \in 1..Len(ks) |-> trace[ks[m]].a[2]]

\* C26: Roles. A role is created only for a target that names one and when
\* it does not exist; the entries this run adds to roles_created are the
\* roles it created; and a role that existed when the run started is never
\* dropped.
C26_PreexistingRolesKept ==
    /\ \A k \in 1..Len(trace) :
          trace[k].op = "create_role" =>
              /\ file_maps[trace[k].t].db_role = trace[k].a[2]
              /\ trace[k].a[2] # ""
              /\ trace[k].a[2] \notin roles0
    /\ run >= 1 =>
          /\ Len(roles_created) = Len(ledger0[2]) + Len(CreatedRoles)
          /\ SubSeq(roles_created, Len(ledger0[2]) + 1, Len(roles_created))
                = CreatedRoles
    /\ roles0 \subseteq roles

\* The positions of the trace that hold operation o.
OpsAt(o) == { k \in 1..Len(trace) : trace[k].op = o }

\* C27: Acquisition once. In a run the order is placed and the archive
\* downloaded at most once, only after every configured target has been
\* evaluated and only when a target qualifies; every operation of a target
\* comes after the download, with the extracted tree in start's
\* download_path; and every target is built from that one tree.
C27_AcquisitionOnce ==
    /\ Cardinality(OpsAt("place_order")) <= 1
    /\ Cardinality(OpsAt("download_file")) <= 1
    /\ ( \/ pc \in {"place_order", "download_file", "extract_archive"}
         \/ OpsAt("place_order") # {} )
       => /\ file_maps # <<>>
          /\ \A k \in 1..Len(files) : Evaluated(k)
          /\ Range(file_maps) \subseteq Range(files)
    /\ \A l \in 1..Len(trace) :
          trace[l].t >= 1 =>
              /\ \E k \in OpsAt("place_order") : k < l
              /\ \E k \in OpsAt("download_file") : k < l
              /\ download_path = DirOf(run)
    /\ (run >= 1 /\ pc \in BuildLabels) =>
          /\ download_path = DirOf(run)
          /\ download_path \in disk

\* C27 witness: the second qualifying target is about to be built from the
\* tree the first one was built from.
C27_Witness ==
    /\ pc = "get_resource_path"
    /\ i = 2
    /\ download_path = DirOf(run)
    /\ Cardinality(OpsAt("download_file")) = 1

\* C28: Connection termination tolerance. When the connections were listed
\* and the connection to the server was opened, close_active_connections
\* returns normally whatever pg_terminate_backend statements fail, and it
\* has executed one for every listed connection, in order; the caller then
\* goes on to the statement that follows (sync.py:85, 89).
C28_TerminationTolerated ==
    (k_out # <<>> /\ k_out[1].fail = "none") =>
        /\ ~k_out[1].raised
        /\ k_out[1].attempted = k_pids
        /\ (Range(k_pids) \cap k_broken = {}) =>
              k_out[1].count = Len(k_pids)

\* C28 witness: of three connections the termination of the first failed,
\* and the call returned.
C28_Witness ==
    /\ k_out # <<>>
    /\ k_out[1].fail = "none"
    /\ Len(k_pids) = 3
    /\ k_pids[1] \in k_broken
    /\ ~k_out[1].raised

====
